---- MODULE Spec2Model ----
(***************************************************************************)
(* The XKT V6 converter's Model (Model.js): the builder operations         *)
(* createPrimitive and createEntity, and createTiles with its kd-tree.     *)
(*                                                                         *)
(* Objects are referred to by reference: a reference to a Primitive, a     *)
(* PrimitiveInstance or an Entity is the 1-based position at which the     *)
(* object sits in primitivesList, primitiveInstancesList or entitiesList   *)
(* (every object the builder allocates is pushed on its list in the same   *)
(* call and nothing is ever removed).  The index the code stores ON the    *)
(* object (primitiveIndex, entityIndex, primitiveInstanceIndex) is a       *)
(* separate, 0-based field, computed as the code computes it.              *)
(*                                                                         *)
(* Coordinates are integers.  Every input coordinate is a multiple of      *)
(* Unit = 2^(KD_TREE_MAX_DEPTH - 1), so that the at most                   *)
(* KD_TREE_MAX_DEPTH - 1 successive halvings of the kd-tree are exact.     *)
(***************************************************************************)
EXTENDS Integers, Sequences, FiniteSets, TLC

VARIABLES
    primitives,             \* Model.primitives: JS object, primitiveId -> Primitive
    primitivesList,         \* Model.primitivesList
    primitiveInstancesList, \* Model.primitiveInstancesList
    entities,               \* Model.entities: JS object, entityId -> Entity
    entitiesList,           \* Model.entitiesList
    tilesList,              \* Model.tilesList
    kdTree,                 \* the kd-tree createTiles built (rootKDNode): its nodes in
                            \* creation order, each with its path from the root
    lastCall,               \* the call made by the last step and how it ended
    inflatedData,           \* ParserV6: the inflated elements load is given
    performanceModel,       \* ParserV6: the calls load has made on performanceModel,
                            \* in order
    parsed                  \* ParserV6.parse: "no" before the call, then how it ended

parserVars == <<inflatedData, performanceModel, parsed>>

vars == <<primitives, primitivesList, primitiveInstancesList, entities,
          entitiesList, tilesList, kdTree, lastCall, inflatedData,
          performanceModel, parsed>>

----------------------------------------------------------------------------
(* Bounds and program constants *)

\* Number of createPrimitive / createEntity calls made on one Model.
MaxCalls == 3

KD_TREE_MAX_DEPTH == 5

\* math.MAX_DOUBLE, the magnitude collapseAABB3 fills an empty box with.
MAX_DOUBLE == 1048576

\* The largest quantized coordinate (16-bit unsigned).
MaxInt == 65535

\* "No object": null / undefined.
NoRef == 0

Unit == 2 ^ (KD_TREE_MAX_DEPTH - 1)

----------------------------------------------------------------------------
(* JS objects used as id maps: own properties in creation order *)

HasOwn(obj, k) == \E i \in DOMAIN obj : obj[i].key = k

\* obj[k]: the value, or undefined
Get(obj, k) ==
    IF HasOwn(obj, k) THEN obj[CHOOSE i \in DOMAIN obj : obj[i].key = k].value
    ELSE NoRef

\* obj[k] = v: an existing property keeps its place, a new one goes last
Put(obj, k, v) ==
    IF HasOwn(obj, k)
    THEN [i \in DOMAIN obj |-> IF obj[i].key = k THEN [key |-> k, value |-> v] ELSE obj[i]]
    ELSE Append(obj, [key |-> k, value |-> v])

\* The ids that are canonical array indices ("integer-like"), with their value.
ArrayIndexValue == ("0" :> 0) @@ ("1" :> 1) @@ ("2" :> 2)

IsArrayIndex(k) == k \in DOMAIN ArrayIndexValue

RECURSIVE AscendingIndexKeys(_)
AscendingIndexKeys(keys) ==
    IF keys = {} THEN <<>>
    ELSE LET k == CHOOSE x \in keys : \A y \in keys : ArrayIndexValue[x] <= ArrayIndexValue[y]
         IN <<k>> \o AscendingIndexKeys(keys \ {k})

OwnKeys(obj) == [i \in DOMAIN obj |-> obj[i].key]

\* for (k in obj): integer-like keys in ascending numeric order, then the
\* other string keys in the order the properties were created
ForInKeys(obj) ==
    AscendingIndexKeys({obj[i].key : i \in {j \in DOMAIN obj : IsArrayIndex(obj[j].key)}})
        \o SelectSeq(OwnKeys(obj), LAMBDA k : ~IsArrayIndex(k))

----------------------------------------------------------------------------
(* math: 4x4 matrices (column-major), points, boxes *)

IdentityMat4 == <<1,0,0,0, 0,1,0,0, 0,0,1,0, 0,0,0,1>>

TranslationMat4(x, y, z) == <<1,0,0,0, 0,1,0,0, 0,0,1,0, x,y,z,1>>

\* math.transformPoint4(m, p): p is a 4-vector
TransformPoint4(m, p) ==
    << m[1] * p[1] + m[5] * p[2] + m[9]  * p[3] + m[13] * p[4],
       m[2] * p[1] + m[6] * p[2] + m[10] * p[3] + m[14] * p[4],
       m[3] * p[1] + m[7] * p[2] + m[11] * p[3] + m[15] * p[4],
       m[4] * p[1] + m[8] * p[2] + m[12] * p[3] + m[16] * p[4] >>

Min(a, b) == IF a < b THEN a ELSE b
Max(a, b) == IF a > b THEN a ELSE b

\* math.collapseAABB3: the empty (inverted) box
CollapseAABB3 == <<MAX_DOUBLE, MAX_DOUBLE, MAX_DOUBLE, -MAX_DOUBLE, -MAX_DOUBLE, -MAX_DOUBLE>>

\* math.expandAABB3Point3(aabb, p)
ExpandAABB3Point3(aabb, p) ==
    << Min(aabb[1], p[1]), Min(aabb[2], p[2]), Min(aabb[3], p[3]),
       Max(aabb[4], p[1]), Max(aabb[5], p[2]), Max(aabb[6], p[3]) >>

\* math.expandAABB3(aabb1, aabb2)
ExpandAABB3(aabb1, aabb2) ==
    << Min(aabb1[1], aabb2[1]), Min(aabb1[2], aabb2[2]), Min(aabb1[3], aabb2[3]),
       Max(aabb1[4], aabb2[4]), Max(aabb1[5], aabb2[5]), Max(aabb1[6], aabb2[6]) >>

\* math.containsAABB3(aabb1, aabb2): aabb1 contains aabb2 on every axis
ContainsAABB3(aabb1, aabb2) ==
    /\ aabb1[1] <= aabb2[1] /\ aabb2[4] <= aabb1[4]
    /\ aabb1[2] <= aabb2[2] /\ aabb2[5] <= aabb1[5]
    /\ aabb1[3] <= aabb2[3] /\ aabb2[6] <= aabb1[6]

\* The loop  for (i = 0; i < len; i += 3)  that sends every vertex of a flat
\* positions array through math.transformPoint4(m, vertex)
TransformPositions(m, positions) ==
    [i \in 1..Len(positions) |->
        LET s == i - ((i - 1) % 3)
        IN TransformPoint4(m, <<positions[s], positions[s + 1], positions[s + 2], 1>>)[i - s + 1]]

RECURSIVE ExpandByVertices(_, _, _)
\* the loop  for (i = 0; i < len; i += 3) expandAABB3Point3(aabb, vertex i)
ExpandByVertices(aabb, positions, i) ==
    IF i > Len(positions) THEN aabb
    ELSE ExpandByVertices(
            ExpandAABB3Point3(aabb, <<positions[i], positions[i + 1], positions[i + 2]>>),
            positions, i + 3)

----------------------------------------------------------------------------
(* Inputs *)

PrimitiveIds == {"p", "q"}

EntityIds == {"1", "a"}

\* Modeling matrices: the identity and a translation far along x.
Matrices == {IdentityMat4, TranslationMat4(128 * Unit, 0, 0)}

\* Local-space positions: two vertices, the corners of a box of one Unit.
Positions == <<0, 0, 0, Unit, Unit, Unit>>

\* Local-space normals: one unit normal per vertex of Positions.
Normals == <<0, 0, 1, 0, 0, -1>>

\* primitiveIds arguments; "x" is the id of no primitive.
PrimitiveIdLists == { <<"p">>, <<"p", "q">>, <<"q", "x", "p">> }

----------------------------------------------------------------------------
(* Model.constructor *)

NoTree == <<>>

Call(op, id, primitiveIds, error) ==
    [op |-> op, id |-> id, primitiveIds |-> primitiveIds, error |-> error]

\* No .xkt data at hand
NoInflatedData == <<>>

\* new Model(): the state after construction
NewModel ==
    /\ primitives = <<>>
    /\ primitivesList = <<>>
    /\ primitiveInstancesList = <<>>
    /\ entities = <<>>
    /\ entitiesList = <<>>
    /\ tilesList = <<>>
    /\ kdTree = NoTree
    /\ lastCall = Call("new", "", <<>>, "none")

Init ==
    /\ NewModel
    /\ inflatedData = NoInflatedData
    /\ performanceModel = <<>>
    /\ parsed = "no"

\* The converter ingests, then calls createTiles once.
Ingesting == kdTree = NoTree

----------------------------------------------------------------------------
(* Model.createPrimitive *)

\* Primitive with the index taken one too high (the length after the push)
PrimitiveIndexAfterPush(primitiveId, primitiveIndex, reused, positions, normalsOctEncoded) ==
    [ primitiveId |-> primitiveId,
      primitiveIndex |-> primitiveIndex + 1,
      reused |-> reused,
      positions |-> positions,
      positionsQuantized |-> [i \in 1..Len(positions) |-> 0],
      normalsOctEncoded |-> normalsOctEncoded ]

\* new Primitive(...)
Primitive(primitiveId, primitiveIndex, reused, positions, normalsOctEncoded) ==
    [ primitiveId |-> primitiveId,
      primitiveIndex |-> primitiveIndex,
      reused |-> reused,
      positions |-> positions,
      positionsQuantized |-> [i \in 1..Len(positions) |-> 0],
      normalsOctEncoded |-> normalsOctEncoded ]

\* The positions createPrimitive stores: baked into World-space if not reused
BakedPositions(reused, modelingMatrix, positions) ==
    IF ~reused
    THEN TransformPositions(modelingMatrix, positions)
    ELSE positions

\* The sign the oct fold uses: 0 counts as positive
SignNotZero(x) == IF x < 0 THEN -1 ELSE 1

Abs(x) == IF x < 0 THEN -x ELSE x

\* The oct pair of an axis-aligned unit normal n, scaled to -127..127: the
\* projection on the octahedron, folded over for the lower hemisphere.
OctEncodeNormal(n) ==
    IF n[3] < 0
    THEN << (1 - Abs(n[2])) * SignNotZero(n[1]) * 127,
            (1 - Abs(n[1])) * SignNotZero(n[2]) * 127 >>
    ELSE << n[1] * 127, n[2] * 127 >>

\* The normal matrix applied to a normal.  modelNormalMatrix is the inverse
\* transpose of modelingMatrix; for the translations of Matrices its 3x3 part
\* is the identity.
TransformNormal(modelingMatrix, n) == n

\* geometryCompression.transformAndOctEncodeNormals(m, normals, len, out, 0):
\* out, which came in zero-filled.  Each normal triple at i fills out[i] and
\* out[i + 1] with its oct pair; out[i + 2] is not used.
TransformAndOctEncodeNormals(modelingMatrix, normals, out) ==
    [i \in 1..Len(out) |->
        LET s == i - ((i - 1) % 3)
        IN IF s + 2 <= Len(normals) /\ i - s < 2
           THEN OctEncodeNormal(TransformNormal(modelingMatrix,
                    <<normals[s], normals[s + 1], normals[s + 2]>>))[i - s + 1]
           ELSE out[i]]

\* new Int8Array(normals.length) with one oct pair (two elements) per normal
\* instead
Int8ArrayPerOctPair(length) == [i \in 1..(2 * (length \div 3)) |-> 0]

\* new Int8Array(length): zero-filled
Int8Array(length) == [i \in 1..length |-> 0]

\* The normalsOctEncoded createPrimitive stores
NormalsOctEncoded(modelingMatrix, normals) ==
    TransformAndOctEncodeNormals(modelingMatrix, normals, Int8Array(Len(normals)))

createPrimitive(primitiveId, reused, modelingMatrix, positions, normals) ==
    /\ Ingesting
    /\ LET primitiveIndex == Len(primitivesList)
           primitive == Primitive(primitiveId, primitiveIndex, reused,
                                  BakedPositions(reused, modelingMatrix, positions),
                                  NormalsOctEncoded(modelingMatrix, normals))
       IN /\ primitivesList' = Append(primitivesList, primitive)
          /\ primitives' = Put(primitives, primitiveId, Len(primitivesList) + 1)
    /\ lastCall' = Call("createPrimitive", primitiveId, <<>>, "none")
    /\ UNCHANGED <<primitiveInstancesList, entities, entitiesList, tilesList, kdTree>>
    /\ UNCHANGED parserVars

\* The builder calls made so far
CallsMade == Len(primitivesList) + Len(entitiesList)

CreatePrimitive ==
    /\ CallsMade < MaxCalls
    /\ \E primitiveId \in PrimitiveIds, reused \in BOOLEAN, modelingMatrix \in Matrices :
          createPrimitive(primitiveId, reused, modelingMatrix, Positions, Normals)

----------------------------------------------------------------------------
(* Model.createEntity *)

\* new PrimitiveInstance(primitiveInstanceIndex, primitive)
PrimitiveInstance(primitiveInstanceIndex, primitive) ==
    [ primitiveInstanceIndex |-> primitiveInstanceIndex,
      primitive |-> primitive,
      entity |-> NoRef ]

\* new Entity(...)
Entity(entityId, entityIndex, matrix, primitiveInstances, aabb, hasReusedPrimitives) ==
    [ entityId |-> entityId,
      entityIndex |-> entityIndex,
      matrix |-> matrix,
      primitiveInstances |-> primitiveInstances,
      aabb |-> aabb,
      hasReusedPrimitives |-> hasReusedPrimitives ]

\* One pass of the loop over primitiveIds: the entity AABB after it
EntityAABBStep(entityAABB, primitive, modelingMatrix, hasReusedPrimitives) ==
    LET positions == primitivesList[primitive].positions
    IN IF hasReusedPrimitives
       THEN ExpandByVertices(entityAABB, TransformPositions(modelingMatrix, positions), 1)
       ELSE ExpandByVertices(entityAABB, positions, 1)

RECURSIVE EntityLoopBreak(_, _, _, _, _)
\* EntityLoop with "break" where the code has "continue": the loop ends at the
\* first unknown id
EntityLoopBreak(primitiveIds, idx, modelingMatrix, hasReusedPrimitives, acc) ==
    IF idx > Len(primitiveIds) THEN acc
    ELSE LET primitive == Get(primitives, primitiveIds[idx])
         IN IF primitive = NoRef
            THEN acc
            ELSE LET primitiveInstanceIndex == Len(acc.list)
                     primitiveInstance == PrimitiveInstance(primitiveInstanceIndex, primitive)
                 IN EntityLoopBreak(primitiveIds, idx + 1, modelingMatrix, hasReusedPrimitives,
                        [ aabb |-> EntityAABBStep(acc.aabb, primitive, modelingMatrix,
                                                  hasReusedPrimitives),
                          primitiveInstances |->
                              Append(acc.primitiveInstances, Len(acc.list) + 1),
                          list |-> Append(acc.list, primitiveInstance) ])

RECURSIVE EntityLoop(_, _, _, _, _)
\* The loop over primitiveIds from index idx on.  acc holds the loop's state:
\* the instances made so far (local list), the model-wide list, the AABB.
EntityLoop(primitiveIds, idx, modelingMatrix, hasReusedPrimitives, acc) ==
    IF idx > Len(primitiveIds) THEN acc
    ELSE LET primitive == Get(primitives, primitiveIds[idx])
         IN IF primitive = NoRef
            THEN \* "primitive not found": continue
                 EntityLoop(primitiveIds, idx + 1, modelingMatrix, hasReusedPrimitives, acc)
            ELSE LET primitiveInstanceIndex == Len(acc.list)
                     primitiveInstance == PrimitiveInstance(primitiveInstanceIndex, primitive)
                 IN EntityLoop(primitiveIds, idx + 1, modelingMatrix, hasReusedPrimitives,
                        [ aabb |-> EntityAABBStep(acc.aabb, primitive, modelingMatrix,
                                                  hasReusedPrimitives),
                          primitiveInstances |->
                              Append(acc.primitiveInstances, Len(acc.list) + 1),
                          list |-> Append(acc.list, primitiveInstance) ])

\* SetEntity with the loop bound one short: the last instance keeps entity = null
SetEntityAllButLast(list, primitiveInstances, entity) ==
    [i \in DOMAIN list |->
        IF \E j \in 1..(Len(primitiveInstances) - 1) : primitiveInstances[j] = i
        THEN [list[i] EXCEPT !.entity = entity]
        ELSE list[i]]

\* primitiveInstance.entity = entity, for every instance of the new entity
SetEntity(list, primitiveInstances, entity) ==
    [i \in DOMAIN list |->
        IF \E j \in DOMAIN primitiveInstances : primitiveInstances[j] = i
        THEN [list[i] EXCEPT !.entity = entity]
        ELSE list[i]]

createEntity(entityId, modelingMatrix, primitiveIds, hasReusedPrimitives) ==
    /\ Ingesting
    /\ \E done \in { EntityLoop(primitiveIds, 1, modelingMatrix, hasReusedPrimitives,
                           [ aabb |-> CollapseAABB3,
                             primitiveInstances |-> <<>>,
                             list |-> primitiveInstancesList ]) } :
          LET entityIndex == Len(entitiesList)
              entity == Entity(entityId, entityIndex, modelingMatrix,
                               done.primitiveInstances, done.aabb, hasReusedPrimitives)
          IN /\ primitiveInstancesList' =
                   SetEntity(done.list, done.primitiveInstances, Len(entitiesList) + 1)
             /\ entitiesList' = Append(entitiesList, entity)
             /\ entities' = Put(entities, entityId, Len(entitiesList) + 1)
    /\ lastCall' = Call("createEntity", entityId, primitiveIds, "none")
    /\ UNCHANGED <<primitives, primitivesList, tilesList, kdTree>>
    /\ UNCHANGED parserVars

CreateEntity ==
    /\ CallsMade < MaxCalls
    /\ \E entityId \in EntityIds, modelingMatrix \in Matrices,
          primitiveIds \in PrimitiveIdLists, hasReusedPrimitives \in BOOLEAN :
          createEntity(entityId, modelingMatrix, primitiveIds, hasReusedPrimitives)

----------------------------------------------------------------------------
(* geometryCompression *)

\* Math.round of the fraction n / d, d > 0
RoundDiv(n, d) == (2 * n + d) \div (2 * d)

Clamp(x, lo, hi) == IF x < lo THEN lo ELSE IF x > hi THEN hi ELSE x

\* geometryCompression.quantizePositions(positions, len, aabb, out): out
QuantizePositions(positions, aabb) ==
    [i \in 1..Len(positions) |->
        LET axis == ((i - 1) % 3) + 1
            min == aabb[axis]
            max == aabb[axis + 3]
        IN Clamp(RoundDiv((positions[i] - min) * MaxInt, max - min), 0, MaxInt)]

\* geometryCompression.createPositionsDecodeMatrix(aabb, out): out.  The
\* affine map with translation min and scale (max - min) / MaxInt; the scale
\* is kept as its numerator.
CreatePositionsDecodeMatrix(aabb) ==
    [ translate |-> <<aabb[1], aabb[2], aabb[3]>>,
      scaleTimesMaxInt |-> <<aabb[4] - aabb[1], aabb[5] - aabb[2], aabb[6] - aabb[3]>> ]

----------------------------------------------------------------------------
(* KDNode and the kd-tree *)

\* new KDNode(aabb), reached from the root by path
KDNode(path, aabb) == [path |-> path, aabb |-> aabb, entities |-> <<>>]

HasNode(tree, path) == \E i \in DOMAIN tree : tree[i].path = path

NodeAt(tree, path) == tree[CHOOSE i \in DOMAIN tree : tree[i].path = path]

\* kdNode.entities.push(entity); math.expandAABB3(nodeAABB, entityAABB)
PlaceEntity(tree, path, entity) ==
    [i \in DOMAIN tree |->
        IF tree[i].path = path
        THEN [tree[i] EXCEPT !.entities = Append(@, entity),
                             !.aabb = ExpandAABB3(@, entitiesList[entity].aabb)]
        ELSE tree[i]]

\* The axis _insertEntityIntoKDTree splits on: the longest, the lower on a tie
SplitDim(nodeAABB) ==
    LET kdTreeDimLength == <<nodeAABB[4] - nodeAABB[1],
                             nodeAABB[5] - nodeAABB[2],
                             nodeAABB[6] - nodeAABB[3]>>
        dim1 == IF kdTreeDimLength[2] > kdTreeDimLength[1] THEN 2 ELSE 1
    IN IF kdTreeDimLength[3] > kdTreeDimLength[dim1] THEN 3 ELSE dim1

\* (nodeAABB[dim] + nodeAABB[dim + 3]) / 2.0
MidPoint(nodeAABB, dim) == (nodeAABB[dim] + nodeAABB[dim + 3]) \div 2

AABBLeft(nodeAABB, dim) == [nodeAABB EXCEPT ![dim + 3] = MidPoint(nodeAABB, dim)]

AABBRight(nodeAABB, dim) == [nodeAABB EXCEPT ![dim] = MidPoint(nodeAABB, dim)]

RECURSIVE InsertEntityIntoKDTree(_, _, _, _, _)
\* Model._insertEntityIntoKDTree(kdNode, entity, depth, maxKDTreeDepth): the tree after
InsertEntityIntoKDTree(tree, path, entity, depth, maxKDTreeDepth) ==
    LET nodeAABB == NodeAt(tree, path).aabb
        entityAABB == entitiesList[entity].aabb
        left == Append(path, "left")
        right == Append(path, "right")
        dim == SplitDim(nodeAABB)
        aabbLeft == AABBLeft(nodeAABB, dim)
        aabbRight == AABBRight(nodeAABB, dim)
        withLeft == IF HasNode(tree, left) THEN tree
                    ELSE Append(tree, KDNode(left, aabbLeft))
        withRight == IF HasNode(withLeft, right) THEN withLeft
                     ELSE Append(withLeft, KDNode(right, aabbRight))
    IN IF depth >= maxKDTreeDepth
       THEN PlaceEntity(tree, path, entity)
       ELSE IF HasNode(tree, left) /\ ContainsAABB3(NodeAt(tree, left).aabb, entityAABB)
       THEN InsertEntityIntoKDTree(tree, left, entity, depth + 1, maxKDTreeDepth)
       ELSE IF HasNode(tree, right) /\ ContainsAABB3(NodeAt(tree, right).aabb, entityAABB)
       THEN InsertEntityIntoKDTree(tree, right, entity, depth + 1, maxKDTreeDepth)
       ELSE IF ~HasNode(tree, left) /\ ContainsAABB3(aabbLeft, entityAABB)
       THEN InsertEntityIntoKDTree(withLeft, left, entity, depth + 1, maxKDTreeDepth)
       ELSE IF ~HasNode(withLeft, right) /\ ContainsAABB3(aabbRight, entityAABB)
       THEN InsertEntityIntoKDTree(withRight, right, entity, depth + 1, maxKDTreeDepth)
       ELSE PlaceEntity(withRight, path, entity)

\* The entities  for (entityId in this.entities)  visits, in order
ForInEntities ==
    LET keys == ForInKeys(entities)
    IN [i \in DOMAIN keys |-> Get(entities, keys[i])]

RECURSIVE RootAABB(_, _, _)
\* The first loop of _createKDTree: the box of the entities visited from i on
RootAABB(aabb, visited, i) ==
    IF i > Len(visited) THEN aabb
    ELSE RootAABB(ExpandAABB3(aabb, entitiesList[visited[i]].aabb), visited, i + 1)

RECURSIVE InsertEntitiesOneLevelDeeper(_, _, _)
\* The second loop of _createKDTree, with a depth limit one higher
InsertEntitiesOneLevelDeeper(tree, visited, i) ==
    IF i > Len(visited) THEN tree
    ELSE InsertEntitiesOneLevelDeeper(
            InsertEntityIntoKDTree(tree, <<>>, visited[i], 0 + 1, KD_TREE_MAX_DEPTH + 1),
            visited, i + 1)

RECURSIVE InsertEntities(_, _, _)
\* The second loop of _createKDTree
InsertEntities(tree, visited, i) ==
    IF i > Len(visited) THEN tree
    ELSE InsertEntities(
            InsertEntityIntoKDTree(tree, <<>>, visited[i], 0 + 1, KD_TREE_MAX_DEPTH),
            visited, i + 1)

\* Model._createKDTree
CreateKDTree ==
    LET visited == ForInEntities
    IN InsertEntities(<<KDNode(<<>>, RootAABB(CollapseAABB3, visited, 1))>>, visited, 1)

----------------------------------------------------------------------------
(* Tiles *)

\* new Tile(aabb, decodeMatrix, entities)
Tile(aabb, decodeMatrix, tileEntities) ==
    [aabb |-> aabb, decodeMatrix |-> decodeMatrix, entities |-> tileEntities]

\* The box _createTileFromEntities works with ("FIXME: aabb is broken")
TileAABB(aabb) == <<-1000, -1000, -1000, 1000, 1000, 1000>>

RECURSIVE KDNodesPreOrder(_, _)
\* The nodes _createTilesFromKDNode visits from path on, in order: their paths
KDNodesPreOrder(tree, path) ==
    IF ~HasNode(tree, path) THEN <<>>
    ELSE <<path>> \o KDNodesPreOrder(tree, Append(path, "left"))
                  \o KDNodesPreOrder(tree, Append(path, "right"))

\* The nodes a tile is made from: those whose entities list is not empty
TileNodes(tree) ==
    SelectSeq(KDNodesPreOrder(tree, <<>>), LAMBDA path : Len(NodeAt(tree, path).entities) > 0)

\* The same nodes themselves, in the same order
TileNodesOf(tree) ==
    LET paths == TileNodes(tree)
    IN [i \in DOMAIN paths |-> NodeAt(tree, paths[i])]

RECURSIVE QuantizeTiles(_, _, _)
\* The quantizing loops of _createTileFromEntities, for the tile nodes from i on:
\* primitivesList with positionsQuantized written
QuantizeTiles(tileNodes, list, i) ==
    IF i > Len(tileNodes) THEN list
    ELSE LET node == tileNodes[i]
             aabb == TileAABB(node.aabb)
             used == { primitiveInstancesList[pi].primitive :
                         pi \in UNION { { entitiesList[node.entities[e]].primitiveInstances[j] :
                                            j \in DOMAIN entitiesList[node.entities[e]].primitiveInstances } :
                                        e \in DOMAIN node.entities } }
         IN QuantizeTiles(tileNodes,
                [p \in DOMAIN list |->
                    IF p \in used /\ ~list[p].reused
                    THEN [list[p] EXCEPT !.positionsQuantized =
                                            QuantizePositions(list[p].positions, aabb)]
                    ELSE list[p]],
                i + 1)

\* Model._createTileFromEntities(entities, aabb): the tile pushed
CreateTileFromEntities(tileEntities, nodeAABB) ==
    LET aabb == TileAABB(nodeAABB)
    IN Tile(aabb, CreatePositionsDecodeMatrix(aabb), tileEntities)

\* Model.createTiles
createTiles ==
    /\ Ingesting
    /\ \E rootKDNode \in {CreateKDTree} :
       \E tileNodes \in {TileNodesOf(rootKDNode)} :
          /\ kdTree' = rootKDNode
          /\ tilesList' = tilesList \o
                [i \in DOMAIN tileNodes |->
                    CreateTileFromEntities(tileNodes[i].entities, tileNodes[i].aabb)]
          /\ primitivesList' = QuantizeTiles(tileNodes, primitivesList, 1)
    /\ lastCall' = Call("createTiles", "", <<>>, "none")
    /\ UNCHANGED <<primitives, primitiveInstancesList, entities, entitiesList>>
    /\ UNCHANGED parserVars

----------------------------------------------------------------------------

Next == CreatePrimitive \/ CreateEntity \/ createTiles

Spec == Init /\ [][Next]_vars

----------------------------------------------------------------------------
(* Instancing: one reused primitive shared by entities placed by their
   modeling matrices, with more entities than Spec allows *)

MaxSharingEntities == 3

CreateSharedPrimitive ==
    /\ primitivesList = <<>>
    /\ createPrimitive("p", TRUE, IdentityMat4, Positions, Normals)

CreateSharingEntity ==
    /\ Len(entitiesList) < MaxSharingEntities
    /\ \E entityId \in EntityIds, modelingMatrix \in Matrices :
          createEntity(entityId, modelingMatrix, <<"p">>, TRUE)

NextTiler == CreateSharedPrimitive \/ CreateSharingEntity \/ createTiles

SpecTiler == Init /\ [][NextTiler]_vars

----------------------------------------------------------------------------
(* ParserV6: JavaScript values *)

\* undefined, and NaN where a number is computed from it; typed array
\* elements are never negative
Undefined == -1

\* 16 floats to a matrix
Mat4Len == 16

\* typedArray[i], i counted from 0: undefined outside the array
At(array, i) == IF i # Undefined /\ i >= 0 /\ i < Len(array) THEN array[i + 1] ELSE Undefined

\* i + n and i * n, NaN for undefined i
Plus(i, n) == IF i = Undefined THEN Undefined ELSE i + n

Times(i, n) == IF i = Undefined THEN Undefined ELSE i * n

\* a < b: false when either side is undefined
LessThan(a, b) == a # Undefined /\ b # Undefined /\ a < b

\* A begin or end argument of subarray and slice, brought into 0..length;
\* undefined and NaN count as dflt
RelativeIndex(i, length, dflt) ==
    IF i = Undefined THEN dflt ELSE IF i > length THEN length ELSE i

\* typedArray.subarray(begin, end)
Subarray(array, begin, end) ==
    LET from == RelativeIndex(begin, Len(array), 0)
        to == RelativeIndex(end, Len(array), Len(array))
    IN IF from < to THEN SubSeq(array, from + 1, to) ELSE <<>>

\* typedArray.slice(begin, end) where end is begin + n: NaN for undefined begin
Slice(array, begin, end) ==
    LET from == RelativeIndex(begin, Len(array), 0)
        to == RelativeIndex(end, Len(array), 0)
    IN IF from < to THEN SubSeq(array, from + 1, to) ELSE <<>>

\* decompressColor: each of the three channels over 255.0 (channels here are
\* 0 or 255); NaN for a channel the array does not have
DecompressColor(color) ==
    [i \in 1..3 |-> IF At(color, i - 1) = Undefined THEN Undefined
                    ELSE At(color, i - 1) \div 255]

\* JSON.parse of the text of an array of strings: its elements.  The text is
\* held as its string literals in order.
JsonParse(text) == [i \in DOMAIN text |-> text[i].string]

\* "geometry" + primitiveIndex
GeometryId(primitiveIndex) == <<"geometry", primitiveIndex>>

----------------------------------------------------------------------------
(* ParserV6: the inflated data *)

MaxWireInstances == 3

\* Numbers of primitives, entities and tiles in a file
WirePrimitiveCounts == {1, 2}

WireEntityCounts == {0, 1, 2}

WireTileCounts == {1, 2}

\* All sequences over S of a length in lengths
SeqsOf(S, lengths) == UNION { [1..n -> S] : n \in lengths }

\* Offsets n * k: the portions of per-element data of fixed size k
Portions(n, k) == [i \in 1..n |-> (i - 1) * k]

\* The elements of a file with numPrimitives primitives of one vertex, one
\* index and one edge index each, and the given instances, entity portions
\* and tile portions.  Primitive indices may name no primitive and entity
\* portions may point past the instances.
InflatedData(numPrimitives, primitiveInstances, entityPortion, tilePortion) ==
    LET numEntities == Len(entityPortion)
        numTiles == Len(tilePortion)
    IN [ positions |-> [i \in 1..(3 * numPrimitives) |-> 100 + i],
         normals |-> [i \in 1..(3 * numPrimitives) |-> IF i % 3 = 1 THEN 127 ELSE 0],
         indices |-> [i \in 1..numPrimitives |-> 0],
         edgeIndices |-> [i \in 1..numPrimitives |-> 0],
         matrices |-> [i \in 1..(Mat4Len * numEntities) |-> 200 + ((i - 1) \div Mat4Len)],
         instancedPrimitivesDecodeMatrix |-> [i \in 1..Mat4Len |-> 300],
         eachPrimitivePositionsAndNormalsPortion |-> Portions(numPrimitives, 3),
         eachPrimitiveIndicesPortion |-> Portions(numPrimitives, 1),
         eachPrimitiveEdgeIndicesPortion |-> Portions(numPrimitives, 1),
         eachPrimitiveColorAndOpacity |->
             [i \in 1..(4 * numPrimitives) |-> IF (i - 1) \div 4 = 0 THEN 255 ELSE 0],
         primitiveInstances |-> primitiveInstances,
         eachEntityId |-> [i \in 1..numEntities |-> [string |-> <<"entity", i - 1>>]],
         eachEntityPrimitiveInstancesPortion |-> entityPortion,
         eachEntityMatricesPortion |-> Portions(numEntities, Mat4Len),
         eachTileDecodeMatrix |->
             [i \in 1..(Mat4Len * numTiles) |-> 400 + ((i - 1) \div Mat4Len)],
         eachTileEntitiesPortion |-> tilePortion ]

\* The entries primitiveInstances may hold: 2 is the index of no primitive
WirePrimitiveIndices == 0..2

\* Tile portions: the first tile starts at entity 0, a later one anywhere up
\* to one past the last entity
TilePortions ==
    { portion \in SeqsOf(0..3, WireTileCounts) : portion[1] = 0 }

InflatedDatas ==
    { InflatedData(numPrimitives, primitiveInstances, entityPortion, tilePortion) :
        numPrimitives \in WirePrimitiveCounts,
        primitiveInstances \in SeqsOf(WirePrimitiveIndices, 0..MaxWireInstances),
        entityPortion \in SeqsOf(0..(MaxWireInstances + 1), WireEntityCounts),
        tilePortion \in TilePortions }

----------------------------------------------------------------------------
(* ParserV6.load *)

\* A call on performanceModel: op with the properties of its cfg object.
\* props names the properties the cfg was given.  tileIndex, tileEntityIndex
\* and primitiveInstancesIndex are the loop variables at the time of the call.
PerformanceModelCall(op, props, cfg, tileIndex, tileEntityIndex, primitiveInstancesIndex) ==
    [ op |-> op, props |-> props, cfg |-> cfg, tileIndex |-> tileIndex,
      tileEntityIndex |-> tileEntityIndex,
      primitiveInstancesIndex |-> primitiveInstancesIndex ]

\* What load carries through its loops
LoadState(calls, geometryCreated, nextMeshId, meshIds) ==
    [ calls |-> calls, geometryCreated |-> geometryCreated,
      nextMeshId |-> nextMeshId, meshIds |-> meshIds ]

\* new Uint32Array(numPrimitives) after the counting loop: an instance entry
\* that is the index of no primitive changes nothing
PrimitiveInstanceCounts ==
    [k \in 1..Len(inflatedData.eachPrimitivePositionsAndNormalsPortion) |->
        Cardinality({ i \in DOMAIN inflatedData.primitiveInstances :
                        inflatedData.primitiveInstances[i] = k - 1 })]

\* The test that sends a primitive down the geometry-reusing branch, with
\* every used primitive taking it
IsInstancedPrimitiveAnyCount(primitiveInstanceCount) ==
    primitiveInstanceCount # Undefined /\ primitiveInstanceCount > 0

\* primitiveInstanceCount > 1
IsInstancedPrimitive(primitiveInstanceCount) ==
    primitiveInstanceCount # Undefined /\ primitiveInstanceCount > 1

\* !geometryCreated[geometryId], forgetting what was created
GeometryNotCreatedForgetful(geometryCreated, geometryId) == TRUE

\* !geometryCreated[geometryId]
GeometryNotCreated(geometryCreated, geometryId) == geometryId \notin geometryCreated

\* The body of the loop over an entity's primitive instances (lines 169-231),
\* at primitiveInstancesIndex i
LoadPrimitiveInstance(st, tileIndex, tileDecodeMatrix, tileEntityIndex, entityMatrix, i) ==
    LET d == inflatedData
        numPrimitives == Len(d.eachPrimitivePositionsAndNormalsPortion)
        primitiveInstancesIndex == i
        primitiveIndex == At(d.primitiveInstances, primitiveInstancesIndex)
        primitiveInstanceCount == At(PrimitiveInstanceCounts, primitiveIndex)
        atLastPrimitive == primitiveIndex = numPrimitives - 1
        primitivePositions ==
            Subarray(d.positions, At(d.eachPrimitivePositionsAndNormalsPortion, primitiveIndex),
                     IF atLastPrimitive THEN Len(d.positions)
                     ELSE At(d.eachPrimitivePositionsAndNormalsPortion, Plus(primitiveIndex, 1)))
        primitiveNormals ==
            Subarray(d.normals, At(d.eachPrimitivePositionsAndNormalsPortion, primitiveIndex),
                     IF atLastPrimitive THEN Len(d.normals)
                     ELSE At(d.eachPrimitivePositionsAndNormalsPortion, Plus(primitiveIndex, 1)))
        primitiveIndices ==
            Subarray(d.indices, At(d.eachPrimitiveIndicesPortion, primitiveIndex),
                     IF atLastPrimitive THEN Len(d.indices)
                     ELSE At(d.eachPrimitiveIndicesPortion, Plus(primitiveIndex, 1)))
        primitiveEdgeIndices ==
            Subarray(d.edgeIndices, At(d.eachPrimitiveEdgeIndicesPortion, primitiveIndex),
                     IF atLastPrimitive THEN Len(d.edgeIndices)
                     ELSE At(d.eachPrimitiveEdgeIndicesPortion, Plus(primitiveIndex, 1)))
        color == DecompressColor(Subarray(d.eachPrimitiveColorAndOpacity,
                                          Times(primitiveIndex, 4),
                                          Plus(Times(primitiveIndex, 4), 3)))
        opacityByte == At(d.eachPrimitiveColorAndOpacity, Plus(Times(primitiveIndex, 4), 3))
        opacity == IF opacityByte = Undefined THEN Undefined ELSE opacityByte \div 255
        meshId == st.nextMeshId
        geometryId == GeometryId(primitiveIndex)
        createGeometry ==
            PerformanceModelCall("createGeometry",
                {"id", "primitive", "positions", "normals", "indices", "edgeIndices",
                 "positionsDecodeMatrix"},
                [ id |-> geometryId, primitive |-> "triangles",
                  positions |-> primitivePositions, normals |-> primitiveNormals,
                  indices |-> primitiveIndices, edgeIndices |-> primitiveEdgeIndices,
                  positionsDecodeMatrix |-> d.instancedPrimitivesDecodeMatrix ],
                tileIndex, tileEntityIndex, primitiveInstancesIndex)
        createInstancedMesh ==
            PerformanceModelCall("createMesh", {"id", "geometryId", "matrix"},
                [ id |-> meshId, geometryId |-> geometryId, matrix |-> entityMatrix ],
                tileIndex, tileEntityIndex, primitiveInstancesIndex)
        createMesh ==
            PerformanceModelCall("createMesh",
                {"id", "primitive", "positions", "normals", "indices", "edgeIndices",
                 "positionsDecodeMatrix", "color", "opacity"},
                [ id |-> meshId, primitive |-> "triangles",
                  positions |-> primitivePositions, normals |-> primitiveNormals,
                  indices |-> primitiveIndices, edgeIndices |-> primitiveEdgeIndices,
                  positionsDecodeMatrix |-> tileDecodeMatrix,
                  color |-> color, opacity |-> opacity ],
                tileIndex, tileEntityIndex, primitiveInstancesIndex)
    IN IF IsInstancedPrimitive(primitiveInstanceCount)
       THEN IF GeometryNotCreated(st.geometryCreated, geometryId)
            THEN LoadState(st.calls \o <<createGeometry, createInstancedMesh>>,
                           st.geometryCreated \cup {geometryId},
                           meshId + 1, Append(st.meshIds, meshId))
            ELSE LoadState(Append(st.calls, createInstancedMesh), st.geometryCreated,
                           meshId + 1, Append(st.meshIds, meshId))
       ELSE LoadState(Append(st.calls, createMesh), st.geometryCreated,
                      meshId + 1, Append(st.meshIds, meshId))

RECURSIVE LoadPrimitiveInstances(_, _, _, _, _, _, _)
\* The loop over an entity's primitive instances (line 167), from
\* primitiveInstancesIndex i up to lastPrimitiveInstanceIndex last
LoadPrimitiveInstances(st, tileIndex, tileDecodeMatrix, tileEntityIndex, entityMatrix, i, last) ==
    IF ~LessThan(i, last) THEN st
    ELSE LoadPrimitiveInstances(
            LoadPrimitiveInstance(st, tileIndex, tileDecodeMatrix, tileEntityIndex,
                                  entityMatrix, i),
            tileIndex, tileDecodeMatrix, tileEntityIndex, entityMatrix, i + 1, last)

\* meshIds.length > 0, with an entity made for an empty list too
HasMeshIdsOrNot(meshIds) == TRUE

\* meshIds.length > 0
HasMeshIds(meshIds) == Len(meshIds) > 0

\* The body of the loop over a tile's entities (lines 153-243)
LoadEntity(st, tileIndex, tileDecodeMatrix, tileEntityIndex) ==
    LET d == inflatedData
        eachEntityId == JsonParse(d.eachEntityId)
        numEntities == Len(eachEntityId)
        entityId == At(eachEntityId, tileEntityIndex)
        entityMatrixIndex == At(d.eachEntityMatricesPortion, tileEntityIndex)
        entityMatrix == Slice(d.matrices, entityMatrixIndex, Plus(entityMatrixIndex, Mat4Len))
        lastTileEntityIndex == numEntities - 1
        atLastTileEntity == tileEntityIndex = lastTileEntityIndex
        firstPrimitiveInstanceIndex == At(d.eachEntityPrimitiveInstancesPortion, tileEntityIndex)
        lastPrimitiveInstanceIndex ==
            IF atLastTileEntity THEN Len(d.primitiveInstances)
            ELSE At(d.eachEntityPrimitiveInstancesPortion, tileEntityIndex + 1)
        after == LoadPrimitiveInstances(
                    [st EXCEPT !.meshIds = <<>>], tileIndex, tileDecodeMatrix,
                    tileEntityIndex, entityMatrix,
                    firstPrimitiveInstanceIndex, lastPrimitiveInstanceIndex)
        entityCall ==
            PerformanceModelCall("createEntity", {"id", "isObject", "meshIds"},
                [ id |-> entityId, isObject |-> TRUE, meshIds |-> after.meshIds ],
                tileIndex, tileEntityIndex, Undefined)
    IN IF HasMeshIds(after.meshIds)
       THEN [after EXCEPT !.calls = Append(@, entityCall)]
       ELSE after

RECURSIVE LoadTileEntities(_, _, _, _, _)
\* The loop over a tile's entities (line 151), from tileEntityIndex on
LoadTileEntities(st, tileIndex, tileDecodeMatrix, tileEntityIndex, lastTileEntityIndex) ==
    IF ~LessThan(tileEntityIndex, lastTileEntityIndex) THEN st
    ELSE LoadTileEntities(LoadEntity(st, tileIndex, tileDecodeMatrix, tileEntityIndex),
                          tileIndex, tileDecodeMatrix, tileEntityIndex + 1,
                          lastTileEntityIndex)

\* The body of the loop over the tiles (lines 133-244)
LoadTile(st, tileIndex) ==
    LET d == inflatedData
        numEntities == Len(JsonParse(d.eachEntityId))
        numTiles == Len(d.eachTileEntitiesPortion)
        lastTileIndex == numTiles - 1
        atLastTile == tileIndex = lastTileIndex
        firstTileEntityIndex == At(d.eachTileEntitiesPortion, tileIndex)
        lastTileEntityIndex == IF atLastTile THEN numEntities
                               ELSE At(d.eachTileEntitiesPortion, tileIndex + 1)
        tileDecodeMatrix == Subarray(d.eachTileDecodeMatrix, tileIndex * Mat4Len,
                                     (tileIndex * Mat4Len) + Mat4Len)
    IN LoadTileEntities(st, tileIndex, tileDecodeMatrix, firstTileEntityIndex,
                        lastTileEntityIndex)

RECURSIVE LoadTiles(_, _)
\* The loop over the tiles (line 131), from tileIndex on
LoadTiles(st, tileIndex) ==
    IF tileIndex >= Len(inflatedData.eachTileEntitiesPortion) THEN st
    ELSE LoadTiles(LoadTile(st, tileIndex), tileIndex + 1)

\* load(viewer, options, inflatedData, performanceModel): the calls it makes
LoadCalls == LoadTiles(LoadState(<<>>, {}, 0, <<>>), 0).calls

\* ParserV6.parse on the elements that inflate to inflatedData.  load has no
\* throw statement and no operation of it throws on these data: it returns.
parse ==
    /\ parsed = "no"
    /\ inflatedData # NoInflatedData
    /\ performanceModel' = performanceModel \o LoadCalls
    /\ parsed' = "returned"
    /\ UNCHANGED <<inflatedData, primitives, primitivesList, primitiveInstancesList,
                   entities, entitiesList, tilesList, kdTree, lastCall>>

\* A fresh performanceModel and the elements of some file
InitLoad ==
    /\ NewModel
    /\ inflatedData \in InflatedDatas
    /\ performanceModel = <<>>
    /\ parsed = "no"

NextLoad == parse

SpecLoad == InitLoad /\ [][NextLoad]_vars

----------------------------------------------------------------------------
(* Properties *)

\* The primitive instances that refer to primitive p
InstancesOf(p) == {i \in DOMAIN primitiveInstancesList : primitiveInstancesList[i].primitive = p}

\* The primitives the instances of entity e refer to
PrimitivesOf(e) ==
    { primitiveInstancesList[entitiesList[e].primitiveInstances[j]].primitive :
        j \in DOMAIN entitiesList[e].primitiveInstances }

\* The entities whose primitiveInstances list holds instance i
OwnersOf(i) ==
    { e \in DOMAIN entitiesList :
        \E j \in DOMAIN entitiesList[e].primitiveInstances :
            entitiesList[e].primitiveInstances[j] = i }

\* C1: a createPrimitive call with an id already present in the model fails
\* with DuplicatePrimitive and leaves the primitives list and the id map as
\* they were.
C1_DuplicatePrimitiveFails ==
    [][ (lastCall'.op = "createPrimitive" /\ HasOwn(primitives, lastCall'.id))
            => /\ lastCall'.error = "DuplicatePrimitive"
               /\ primitivesList' = primitivesList
               /\ primitives' = primitives ]_vars

\* C2: a createEntity call with an id already present in the model fails with
\* DuplicateEntity and adds no entity and no primitive instance.
C2_DuplicateEntityFails ==
    [][ (lastCall'.op = "createEntity" /\ HasOwn(entities, lastCall'.id))
            => /\ lastCall'.error = "DuplicateEntity"
               /\ entitiesList' = entitiesList
               /\ primitiveInstancesList' = primitiveInstancesList ]_vars

C4_ReusedIffTwoInstances ==
    \A p \in DOMAIN primitivesList :
        primitivesList[p].reused <=> Cardinality(InstancesOf(p)) >= 2

\* C5: hasReusedPrimitives is all-or-nothing: either it is TRUE and every
\* primitive the entity's instances refer to is reused, or it is FALSE and
\* none is.
C5_HasReusedPrimitivesAllOrNothing ==
    \A e \in DOMAIN entitiesList :
        \/ /\ entitiesList[e].hasReusedPrimitives
           /\ \A p \in PrimitivesOf(e) : primitivesList[p].reused
        \/ /\ ~entitiesList[e].hasReusedPrimitives
           /\ \A p \in PrimitivesOf(e) : ~primitivesList[p].reused

\* C6: every primitive instance of the model-wide list refers to a primitive
\* whose primitiveIndex is less than the number of primitives, has a non-null
\* owning entity, and is in the primitiveInstances list of that entity and of
\* no other.
C6_InstanceRefersAndIsOwned ==
    \A i \in DOMAIN primitiveInstancesList :
        LET instance == primitiveInstancesList[i]
        IN /\ instance.primitive \in DOMAIN primitivesList
           /\ primitivesList[instance.primitive].primitiveIndex < Len(primitivesList)
           /\ instance.entity # NoRef
           /\ instance.entity \in DOMAIN entitiesList
           /\ OwnersOf(i) = {instance.entity}

\* C6 witness: two instances of the same primitive are owned by two different
\* entities.
C6_Witness ==
    \E i, j \in DOMAIN primitiveInstancesList :
        /\ primitiveInstancesList[i].primitive = primitiveInstancesList[j].primitive
        /\ primitiveInstancesList[i].entity # NoRef
        /\ primitiveInstancesList[j].entity # NoRef
        /\ primitiveInstancesList[i].entity # primitiveInstancesList[j].entity

\* C7: the index stored on each object is its position in its list
\* (0-based), and every id of an id map maps to an object of the list that
\* carries that id.
C7_IndexIsListPosition ==
    /\ \A i \in DOMAIN primitivesList : primitivesList[i].primitiveIndex = i - 1
    /\ \A i \in DOMAIN entitiesList : entitiesList[i].entityIndex = i - 1
    /\ \A i \in DOMAIN primitiveInstancesList :
          primitiveInstancesList[i].primitiveInstanceIndex = i - 1
    /\ \A k \in DOMAIN primitives :
          /\ primitives[k].value \in DOMAIN primitivesList
          /\ primitivesList[primitives[k].value].primitiveId = primitives[k].key
    /\ \A k \in DOMAIN entities :
          /\ entities[k].value \in DOMAIN entitiesList
          /\ entitiesList[entities[k].value].entityId = entities[k].key

\* C7 witness: two primitives and an entity with two instances are in the model.
C7_Witness ==
    /\ Len(primitivesList) >= 2
    /\ Len(primitiveInstancesList) >= 2
    /\ Len(entitiesList) >= 1
    /\ Len(primitives) >= 2

\* C8: after createTiles, the AABB of every entity of a tile is contained in
\* the tile's aabb on every axis.
C8_EntityAABBInTileAABB ==
    \A t \in DOMAIN tilesList :
        \A j \in DOMAIN tilesList[t].entities :
            ContainsAABB3(tilesList[t].aabb, entitiesList[tilesList[t].entities[j]].aabb)

\* C9: every tile has the aabb of the kd-tree node it was flattened from, its
\* decode matrix is derived from that node AABB, and the non-reused primitives
\* of its entities are quantized against it.
C9_TileUsesNodeAABB ==
    lastCall.op = "createTiles" =>
        /\ Len(tilesList) = Len(TileNodes(kdTree))
        /\ \A t \in DOMAIN tilesList :
              LET node == NodeAt(kdTree, TileNodes(kdTree)[t])
              IN /\ tilesList[t].entities = node.entities
                 /\ tilesList[t].aabb = node.aabb
                 /\ tilesList[t].decodeMatrix = CreatePositionsDecodeMatrix(node.aabb)
                 /\ \A j \in DOMAIN node.entities :
                       \A p \in PrimitivesOf(node.entities[j]) :
                           ~primitivesList[p].reused =>
                               primitivesList[p].positionsQuantized =
                                   QuantizePositions(primitivesList[p].positions, node.aabb)

\* C10: within every tile the entities are in model-insertion order: their
\* entityIndex is strictly increasing along the tile's entities list.
C10_TileEntitiesInInsertionOrder ==
    \A t \in DOMAIN tilesList :
        \A j, k \in DOMAIN tilesList[t].entities :
            j < k => entitiesList[tilesList[t].entities[j]].entityIndex
                        < entitiesList[tilesList[t].entities[k]].entityIndex

ProperAABB3(aabb) == \A d \in 1..3 : aabb[d] <= aabb[d + 3]

\* Two boxes with no point in common
DisjointAABB3(a, b) == \E d \in 1..3 : a[d + 3] < b[d] \/ b[d + 3] < a[d]

\* Entity e lies in the root box, strictly below the root's split plane
StrictlyInLeftHalf(e) ==
    LET root == kdTree[1].aabb
        dim == SplitDim(root)
    IN /\ ProperAABB3(entitiesList[e].aabb)
       /\ ContainsAABB3(root, entitiesList[e].aabb)
       /\ 2 * entitiesList[e].aabb[dim + 3] < root[dim] + root[dim + 3]

\* Entity e lies in the root box, strictly above the root's split plane
StrictlyInRightHalf(e) ==
    LET root == kdTree[1].aabb
        dim == SplitDim(root)
    IN /\ ProperAABB3(entitiesList[e].aabb)
       /\ ContainsAABB3(root, entitiesList[e].aabb)
       /\ 2 * entitiesList[e].aabb[dim] > root[dim] + root[dim + 3]

\* The tiles whose entities list holds entity e
TilesOf(e) ==
    { t \in DOMAIN tilesList :
        \E j \in DOMAIN tilesList[t].entities : tilesList[t].entities[j] = e }

\* Entity e is the one the id map holds for its id
InIdMap(e) == Get(entities, entitiesList[e].entityId) = e

\* C16: after createTiles, two entities with disjoint boxes that lie strictly
\* inside opposite halves of the root box along its longest axis are in two
\* different tiles, and the model has at least two tiles.
C16_OppositeHalvesTwoTiles ==
    kdTree # NoTree =>
        \A e1, e2 \in DOMAIN entitiesList :
            ( /\ DisjointAABB3(entitiesList[e1].aabb, entitiesList[e2].aabb)
              /\ StrictlyInLeftHalf(e1)
              /\ StrictlyInRightHalf(e2) )
            => /\ Len(tilesList) >= 2
               /\ \E t1 \in TilesOf(e1), t2 \in TilesOf(e2) : t1 # t2

\* The same for the entities createTiles finds in the id map
OppositeHalvesTwoTilesInIdMap ==
    kdTree # NoTree =>
        \A e1, e2 \in DOMAIN entitiesList :
            ( /\ InIdMap(e1) /\ InIdMap(e2)
              /\ DisjointAABB3(entitiesList[e1].aabb, entitiesList[e2].aabb)
              /\ StrictlyInLeftHalf(e1)
              /\ StrictlyInRightHalf(e2) )
            => /\ Len(tilesList) >= 2
               /\ \E t1 \in TilesOf(e1), t2 \in TilesOf(e2) : t1 # t2

\* Two entities of the id map in opposite halves have been tiled
OppositeHalvesTiled ==
    /\ kdTree # NoTree
    /\ \E e1, e2 \in DOMAIN entitiesList :
          /\ InIdMap(e1) /\ InIdMap(e2)
          /\ DisjointAABB3(entitiesList[e1].aabb, entitiesList[e2].aabb)
          /\ StrictlyInLeftHalf(e1)
          /\ StrictlyInRightHalf(e2)

\* The depth _insertEntityIntoKDTree has when it visits the node at path: the
\* root is visited with depth 0 + 1, each child with its parent's depth + 1
NodeDepth(path) == Len(path) + 1

\* The kd-tree nodes whose entities list holds entity e
NodesOf(e) ==
    { n \in DOMAIN kdTree :
        \E j \in DOMAIN kdTree[n].entities : kdTree[n].entities[j] = e }

\* C17: inserting an entity into the kd-tree terminates with the entity placed
\* in one node; every node other than the root hangs under a node one level
\* up, no node lies deeper than KD_TREE_MAX_DEPTH, and a node at that depth
\* has no children.
C17_NoNodeBelowMaxDepth ==
    /\ kdTree # NoTree =>
          \A e \in DOMAIN entitiesList : InIdMap(e) => Cardinality(NodesOf(e)) = 1
    /\ \A n \in DOMAIN kdTree :
          LET path == kdTree[n].path
          IN /\ NodeDepth(path) <= KD_TREE_MAX_DEPTH
             /\ path # <<>> => HasNode(kdTree, SubSeq(path, 1, Len(path) - 1))
             /\ NodeDepth(path) >= KD_TREE_MAX_DEPTH
                   => /\ ~HasNode(kdTree, Append(path, "left"))
                      /\ ~HasNode(kdTree, Append(path, "right"))

\* C17 witness: an entity went down to a node at KD_TREE_MAX_DEPTH and was
\* placed there.
C17_Witness ==
    \E n \in DOMAIN kdTree :
        /\ NodeDepth(kdTree[n].path) = KD_TREE_MAX_DEPTH
        /\ Len(kdTree[n].entities) > 0

\* How many times entity e occurs in the entities list of tile t
OccurrencesIn(t, e) ==
    Cardinality({ j \in DOMAIN tilesList[t].entities : tilesList[t].entities[j] = e })

\* C18: after createTiles, every entity of entitiesList is in the entities
\* list of exactly one tile, once, and no tile has an empty entities list.
C18_EachEntityInExactlyOneTile ==
    kdTree # NoTree =>
        /\ \A e \in DOMAIN entitiesList :
              /\ Cardinality(TilesOf(e)) = 1
              /\ \A t \in TilesOf(e) : OccurrencesIn(t, e) = 1
        /\ \A t \in DOMAIN tilesList : Len(tilesList[t].entities) > 0

\* The same for the entities createTiles finds in the id map
EachIdMapEntityInExactlyOneTile ==
    kdTree # NoTree =>
        /\ \A e \in DOMAIN entitiesList :
              InIdMap(e) => /\ Cardinality(TilesOf(e)) = 1
                            /\ \A t \in TilesOf(e) : OccurrencesIn(t, e) = 1
        /\ \A t \in DOMAIN tilesList : Len(tilesList[t].entities) > 0

----------------------------------------------------------------------------
(* Properties of ParserV6 *)

\* The positions in performanceModel of the calls of operation op
CallsOf(op) == { k \in DOMAIN performanceModel : performanceModel[k].op = op }

\* The createMesh calls that name a geometry
InstancedMeshCalls == { k \in CallsOf("createMesh") : "geometryId" \in performanceModel[k].props }

\* C11: during one parse createGeometry is called at most once for a
\* primitive index, however many instances, entities and tiles refer to it,
\* and every createMesh that names a geometryId comes after the createGeometry
\* call for that id.
C11_GeometryOnceAndBeforeMeshes ==
    /\ \A i, j \in CallsOf("createGeometry") :
          performanceModel[i].cfg.id = performanceModel[j].cfg.id => i = j
    /\ \A k \in InstancedMeshCalls :
          \E i \in CallsOf("createGeometry") :
              /\ i < k
              /\ performanceModel[i].cfg.id = performanceModel[k].cfg.geometryId

\* C11 witness: meshes of two entities in two tiles name the same geometry.
C11_Witness ==
    \E i, j \in InstancedMeshCalls :
        /\ performanceModel[i].cfg.geometryId = performanceModel[j].cfg.geometryId
        /\ performanceModel[i].tileIndex # performanceModel[j].tileIndex
        /\ performanceModel[i].tileEntityIndex # performanceModel[j].tileEntityIndex

\* The wire entities: their indices
WireEntities == 0..(Len(inflatedData.eachEntityId) - 1)

\* The wire entities of tile t: the run from its portion to the next tile's
TileEntities(t) ==
    LET portion == inflatedData.eachTileEntitiesPortion
        last == IF t = Len(portion) - 1 THEN Len(inflatedData.eachEntityId)
                ELSE portion[t + 2]
    IN { e \in WireEntities : portion[t + 1] <= e /\ e < last }

\* The instance slice of wire entity e: from its portion to the next entity's
InstanceSlice(e) ==
    LET portion == inflatedData.eachEntityPrimitiveInstancesPortion
        last == IF e = Len(portion) - 1 THEN Len(inflatedData.primitiveInstances)
                ELSE portion[e + 2]
    IN portion[e + 1]..(last - 1)

\* The ids of the meshes created while entity e of tile t was visited, in order
MeshIdsOf(t, e) ==
    LET meshCalls == SelectSeq(performanceModel,
                        LAMBDA c : c.op = "createMesh" /\ c.tileIndex = t
                                   /\ c.tileEntityIndex = e)
    IN [k \in DOMAIN meshCalls |-> meshCalls[k].cfg.id]

\* The createEntity calls made while entity e of tile t was visited
EntityCallsOf(t, e) ==
    { k \in CallsOf("createEntity") :
        performanceModel[k].tileIndex = t /\ performanceModel[k].tileEntityIndex = e }

\* C12: createEntity is called for a wire entity of a tile exactly when the
\* entity's instance slice is not empty, and every createEntity call carries a
\* non-empty meshIds list: the ids of the meshes created for that entity's
\* instances, in order.
C12_EntityIffInstances ==
    parsed = "returned" =>
        /\ \A t \in 0..(Len(inflatedData.eachTileEntitiesPortion) - 1) :
              \A e \in TileEntities(t) :
                  /\ EntityCallsOf(t, e) # {} <=> InstanceSlice(e) # {}
                  /\ Cardinality(EntityCallsOf(t, e)) <= 1
        /\ \A k \in CallsOf("createEntity") :
              LET c == performanceModel[k]
              IN /\ c.tileEntityIndex \in TileEntities(c.tileIndex)
                 /\ c.cfg.id = inflatedData.eachEntityId[c.tileEntityIndex + 1].string
                 /\ Len(c.cfg.meshIds) > 0
                 /\ Len(c.cfg.meshIds) = Cardinality(InstanceSlice(c.tileEntityIndex))
                 /\ c.cfg.meshIds = MeshIdsOf(c.tileIndex, c.tileEntityIndex)
                 /\ \A m \in CallsOf("createMesh") :
                       ( performanceModel[m].tileIndex = c.tileIndex
                         /\ performanceModel[m].tileEntityIndex = c.tileEntityIndex )
                       => m < k

\* C12 witness: one wire entity without instances was skipped and one with
\* two or more instances was created.
C12_Witness ==
    /\ parsed = "returned"
    /\ \E e \in WireEntities :
          /\ InstanceSlice(e) = {}
          /\ \E t \in 0..(Len(inflatedData.eachTileEntitiesPortion) - 1) : e \in TileEntities(t)
    /\ \E k \in CallsOf("createEntity") : Len(performanceModel[k].cfg.meshIds) >= 2

\* A portion array with an offset past the end of its stream
PortionPastEnd(portion, length) == \E i \in DOMAIN portion : portion[i] > length

\* The data have an error the decoder has to treat as fatal: an instance entry
\* that is the index of no primitive, or a portion offset past the end of its
\* stream.
FatalInputError ==
    \/ \E i \in DOMAIN inflatedData.primitiveInstances :
          inflatedData.primitiveInstances[i]
              >= Len(inflatedData.eachPrimitivePositionsAndNormalsPortion)
    \/ PortionPastEnd(inflatedData.eachEntityPrimitiveInstancesPortion,
                      Len(inflatedData.primitiveInstances))
    \/ PortionPastEnd(inflatedData.eachTileEntitiesPortion, Len(inflatedData.eachEntityId))

\* C13: on a fatal input error parse reports the error and has made no
\* createGeometry, createMesh or createEntity call.
C13_FatalErrorNoCalls ==
    (parsed # "no" /\ FatalInputError) =>
        /\ parsed = "threw"
        /\ performanceModel = <<>>

\* How often primitive index p occurs in the primitiveInstances stream
CountInStream(p) ==
    Cardinality({ i \in DOMAIN inflatedData.primitiveInstances :
                    inflatedData.primitiveInstances[i] = p })

\* The inline geometry properties of a createMesh cfg
InlineGeometryProps ==
    {"primitive", "positions", "normals", "indices", "edgeIndices",
     "positionsDecodeMatrix", "color", "opacity"}

\* The slice of primitive p in a stream with k elements per primitive
PrimitiveSlice(stream, p, k) == SubSeq(stream, (p * k) + 1, (p * k) + k)

\* C14: a visited instance whose entry is the index of a primitive is handled
\* as instanced exactly when that index occurs more than once in the
\* primitiveInstances stream.  An instanced one gives a createMesh with the
\* geometryId and the entity matrix and no inline geometry; a single-use one
\* gives a createMesh with the primitive's inline positions, normals, indices,
\* edgeIndices, color and opacity, the decode matrix of the tile being visited,
\* and no matrix.
C14_InstancedIffCountAboveOne ==
    \A k \in CallsOf("createMesh") :
        LET c == performanceModel[k]
            p == At(inflatedData.primitiveInstances, c.primitiveInstancesIndex)
            d == inflatedData
        IN (p # Undefined /\ p < Len(d.eachPrimitivePositionsAndNormalsPortion)) =>
              /\ k \in InstancedMeshCalls <=> CountInStream(p) > 1
              /\ k \in InstancedMeshCalls =>
                    /\ c.props = {"id", "geometryId", "matrix"}
                    /\ c.cfg.geometryId = GeometryId(p)
                    /\ c.cfg.matrix = PrimitiveSlice(d.matrices, c.tileEntityIndex, Mat4Len)
              /\ k \notin InstancedMeshCalls =>
                    /\ c.props = {"id"} \cup InlineGeometryProps
                    /\ c.cfg.positions = PrimitiveSlice(d.positions, p, 3)
                    /\ c.cfg.normals = PrimitiveSlice(d.normals, p, 3)
                    /\ c.cfg.indices = PrimitiveSlice(d.indices, p, 1)
                    /\ c.cfg.edgeIndices = PrimitiveSlice(d.edgeIndices, p, 1)
                    /\ c.cfg.color = [i \in 1..3 |-> d.eachPrimitiveColorAndOpacity[(p * 4) + i] \div 255]
                    /\ c.cfg.opacity = d.eachPrimitiveColorAndOpacity[(p * 4) + 4] \div 255
                    /\ c.cfg.positionsDecodeMatrix
                          = PrimitiveSlice(d.eachTileDecodeMatrix, c.tileIndex, Mat4Len)

\* C14 witness: in the second tile, an instanced and a single-use primitive
\* were each given a mesh.
C14_Witness ==
    \E i \in InstancedMeshCalls, j \in CallsOf("createMesh") \ InstancedMeshCalls :
        /\ performanceModel[i].tileIndex = 1
        /\ performanceModel[j].tileIndex = 1
        /\ At(inflatedData.primitiveInstances, performanceModel[j].primitiveInstancesIndex)
              < Len(inflatedData.eachPrimitivePositionsAndNormalsPortion)
        /\ At(inflatedData.primitiveInstances, performanceModel[j].primitiveInstancesIndex)
              # Undefined

====
